---- MODULE Spec2Model ----
(***************************************************************************)
(* Model of plugin/src/ios/withNativeFontsIOS.ts: the iOS half of the      *)
(* expo-native-fonts config plugin.  One run of injectExpoNativeFontsIOS   *)
(* filters the declared fonts, groups them by target, patches each         *)
(* target's Info.plist, copies the font folder and registers every font    *)
(* file with its target in the Xcode project object.                       *)
(*                                                                         *)
(* Texts are sequences of tokens (a tag, its payload), paths are sequences *)
(* of segments, an optional value is <<>> (undefined) or <<v>> (defined).  *)
(***************************************************************************)
EXTENDS Integers, Sequences, FiniteSets, TLC

\* Longest fonts list of an Options value.
MaxFonts == 2
\* Number of times the pipeline is run against the same project tree.
MaxRuns == 2

Undefined == <<>>
Defined(v) == <<v>>

\* ------------------------------------------------------------------ inputs

Font(filePath, platform, targets) ==
  [filePath |-> filePath, platform |-> platform, targets |-> targets]

\* platform "unset" stands for a declaration without the platform field.
\* Font declarations an Options value is drawn from: fonts with one target,
\* several targets, a repeated target, an empty targets list, no targets
\* field, the android marker with and without targets, a sub-directory in
\* filePath, and a target ("C") that the Xcode project does not have.
FontDeclarations ==
  { Font(<<"a.ttf">>,         "ios",     Defined(<<"A">>)),
    Font(<<"sub", "b.ttf">>,  "unset",    Defined(<<"A", "B">>)),
    Font(<<"c.ttf">>,         "android", Undefined),
    Font(<<"d.ttf">>,         "ios",     Undefined),
    Font(<<"e.ttf">>,         "ios",     Defined(<<>>)),
    Font(<<"g.ttf">>,         "ios",     Defined(<<"A", "A">>)),
    Font(<<"h.ttf">>,         "unset",    Defined(<<"C">>)),
    Font(<<"i.ttf">>,         "android", Defined(<<"B">>)) }

FontLists == UNION {[1..n -> FontDeclarations] : n \in 0..MaxFonts}

TargetNames == {"A", "B", "C"}

\* project.pbxNativeTargetSection(): uuid-keyed entries in key order.  Two
\* entries carry the name "A"; no entry carries the name "C".
NativeTargetSection ==
  << [uuid |-> "u1", name |-> "A"],
     [uuid |-> "u2", name |-> "B"],
     [uuid |-> "u3", name |-> "A"] >>

\* ------------------------------------------------------------------- texts

Tok(tag) == [tag |-> tag, text |-> ""]
StringTok(name) == [tag |-> "<string>", text |-> name]

\* The document written when a target has no Info.plist.
EmptyPlist ==
  << Tok("<?xml>"), Tok("<!DOCTYPE>"), Tok("<plist>"), Tok("<dict>"),
     Tok("</dict>"), Tok("</plist>"), Tok("\n") >>

\* Info.plist files a target may start with: none, a document with nested
\* dictionaries, a document without a dictionary, a file with neither
\* marker.
PlistFiles ==
  { Undefined,
    Defined(<< Tok("<plist>"), Tok("<dict>"), Tok("<key>CFBundleName</key>"),
               Tok("<dict>"), Tok("</dict>"), Tok("</dict>"), Tok("</plist>") >>),
    Defined(<< Tok("<?xml>"), Tok("<plist>"), Tok("</plist>"), Tok("\n") >>),
    Defined(<< Tok("garbage") >>) }

\* String.prototype.indexOf on tokens: 0-based, -1 when absent.
indexOf(contents, tag) ==
  IF \E i \in 1..Len(contents) : contents[i].tag = tag
  THEN (CHOOSE i \in 1..Len(contents) :
          /\ contents[i].tag = tag
          /\ \A j \in 1..(i - 1) : contents[j].tag # tag) - 1
  ELSE -1

\* String.prototype.slice(from, to) and slice(from), 0-based.
slice(contents, from, to) == SubSeq(contents, from + 1, to)
sliceFrom(contents, from) == SubSeq(contents, from + 1, Len(contents))

\* A base name that keeps the first segment instead of the last.
basename_first(filePath) == filePath[1]
\* path.basename and path.join('Fonts', filePath) on segment sequences.
basename(filePath) == filePath[Len(filePath)]
joinFonts(filePath) == <<"Fonts">> \o filePath

\* ------------------------------------------------------- filter and group

getIOSFonts(options) ==
  LET isIOS(f) == f.platform # "android"
  IN  SelectSeq(options.fonts, isIOS)

\* A groupByTarget that checks nothing.
MissingTargets_never(font) == FALSE
\* The check `!targets` of groupByTarget.
MissingTargets(font) == font.targets = Undefined

\* The elements `for (const target of targets)` visits.
targetsOf(font) == IF font.targets = Undefined THEN <<>> ELSE font.targets[1]

\* FontsGrouped is an object: its entries in key insertion order.
hasKey(grouped, target) == \E i \in 1..Len(grouped) : grouped[i].target = target
keyIndex(grouped, target) == CHOOSE i \in 1..Len(grouped) : grouped[i].target = target

\* A groupByTarget that drops the spread of the existing bucket.
bucketOf_forgotten(grouped, target) == <<>>
\* `groupedFonts[target] || []`
bucketOf(grouped, target) ==
  IF hasKey(grouped, target) THEN grouped[keyIndex(grouped, target)].fonts ELSE <<>>

\* `groupedFonts[target] = fonts`
setBucket(grouped, target, fonts) ==
  IF hasKey(grouped, target)
  THEN [grouped EXCEPT ![keyIndex(grouped, target)].fonts = fonts]
  ELSE Append(grouped, [target |-> target, fonts |-> fonts])

\* The inner loop of groupByTarget over one font's targets.
RECURSIVE addToTargets(_, _, _)
addToTargets(grouped, font, targets) ==
  IF targets = <<>> THEN grouped
  ELSE addToTargets(
         setBucket(grouped, Head(targets), Append(bucketOf(grouped, Head(targets)), font)),
         font, Tail(targets))

\* The outer loop of groupByTarget; it throws at the first font without
\* targets, and the buckets built so far are then dropped with the frame.
RECURSIVE groupLoop(_, _)
groupLoop(grouped, fonts) ==
  IF fonts = <<>> THEN [error |-> Undefined, grouped |-> grouped]
  ELSE IF MissingTargets(Head(fonts))
       THEN [error |-> Defined(Head(fonts).filePath), grouped |-> <<>>]
       ELSE groupLoop(addToTargets(grouped, Head(fonts), targetsOf(Head(fonts))),
                      Tail(fonts))

groupByTarget(fonts) == groupLoop(<<>>, fonts)

\* ------------------------------------------------------ Info.plist patch

\* insertionKeys and insertionContents of updateInfoPlist.
insertionContents(targetFonts) ==
  << Tok("<key>UIAppFonts</key>"), Tok("<array>") >>
  \o [i \in 1..Len(targetFonts) |-> StringTok(basename(targetFonts[i].filePath))]
  \o << Tok("</array>") >>

\* A fallback that appends at the end of the file.
fallbackIndex_end(contents) == Len(contents)
\* plistEndIndex of updateInfoPlist.
fallbackIndex(contents) == indexOf(contents, "</plist>")

\* insertIndex of updateInfoPlist: -1 when the file has neither marker.
insertIndex(contents) ==
  LET dictIndex == indexOf(contents, "<dict>")
  IN  IF dictIndex = -1
      THEN (IF indexOf(contents, "</plist>") = -1 THEN -1 ELSE fallbackIndex(contents))
      ELSE dictIndex + 1

\* A splice that leaves a file alone once it holds the fragment's key.
newPlistContents_once(contents, at, fragment) ==
  IF \E i \in 1..Len(contents) : contents[i] = fragment[1]
  THEN contents
  ELSE slice(contents, 0, at) \o fragment \o sliceFrom(contents, at)
\* newPlistContents of updateInfoPlist.
newPlistContents(contents, at, fragment) ==
  slice(contents, 0, at) \o fragment \o sliceFrom(contents, at)

\* ------------------------------------------------------- Xcode project

\* A lookup that falls back to the first entry of the section.
getPBXTargetByName_any(section, name) ==
  IF \E i \in 1..Len(section) : section[i].name = name
  THEN Defined(section[CHOOSE i \in 1..Len(section) :
                         /\ section[i].name = name
                         /\ \A j \in 1..(i - 1) : section[j].name # name].uuid)
  ELSE Defined(section[1].uuid)
\* getPBXTargetByName: the uuid of the first entry of the section with that
\* name.
getPBXTargetByName(section, name) ==
  IF \E i \in 1..Len(section) : section[i].name = name
  THEN Defined(section[CHOOSE i \in 1..Len(section) :
                         /\ section[i].name = name
                         /\ \A j \in 1..(i - 1) : section[j].name # name].uuid)
  ELSE Undefined

\* IOSConfig.XcodeUtils.addResourceFileToGroup: the project with the file
\* registered as a resource build file of the target.
addResourceFileToGroup(project, filepath, targetUuid) ==
  project \cup {[filepath |-> filepath, targetUuid |-> targetUuid]}

\* ------------------------------------------------------------ control flow

\* injectExpoNativeFontsIOS after groupByTarget: updateInfoPlist comes
\* first; its loop body runs once per key of grouped.
plistLoop(i, grouped) ==
  IF i <= Len(grouped) THEN "updateInfoPlist" ELSE "updateXcodeProject"

\* An entry point that calls updateXcodeProject without updateInfoPlist.
afterGroup_copyFirst(grouped) == "updateXcodeProject"
afterGroup(grouped) == plistLoop(1, grouped)

\* updateXcodeProject after copyFontFiles: the loop over the targets.
afterCopy(i, grouped) ==
  IF i <= Len(grouped) THEN "addFontToXcodeProj" ELSE "done"

\* A loop that calls copyFontFiles again for every further target.
nextTarget_recopy(i, grouped) ==
  IF i <= Len(grouped) THEN "updateXcodeProject" ELSE "done"
\* updateXcodeProject after addFontToXcodeProj returned for target i - 1.
nextTarget(i, grouped) ==
  IF i <= Len(grouped) THEN "addFontToXcodeProj" ELSE "done"

\* -------------------------------------------------------------------- state

VARIABLES
  options,      \* the plugin's Options: fonts, srcFolder
  registrar,    \* addResourceFileToGroup updates its project "inplace", or is
                \* "functional" and returns a new project
  srcStat,      \* what projectRoot/srcFolder is: "dir", "file", "missing"
  plist,        \* ios/<target>/Info.plist of each target name, when it exists
  dirs,         \* the directories under ios/ that exist
  fontsCopied,  \* whether ios/Fonts holds the content of srcFolder
  modResults,   \* config.modResults: the resources registered in the project
  project,      \* the `project` constant of addFontToXcodeProj
  grouped,      \* the `grouped` constant of injectExpoNativeFontsIOS
  ti,           \* position of the running loop over the targets
  fi,           \* position of addFontToXcodeProj's loop over fontFiles
  targetUuid,   \* the `targetUuid` constant of addFontToXcodeProj
  pc,           \* the function the run is in: "idle", "done", "failed" outside
  error,        \* the Error thrown, when pc = "failed"
  runs,         \* number of runs started
  plist0, dirs0, fontsCopied0, modResults0,  \* the tree and project at run start
  patchedRun,   \* targets whose Info.plist this run wrote
  patchCount,   \* per target, the Info.plist writes of all runs
  copyCount,    \* executions of fsExtra.copySync in this run
  calls         \* the addResourceFileToGroup calls of this run

vars ==
  << options, registrar, srcStat, plist, dirs, fontsCopied, modResults, project,
     grouped, ti, fi, targetUuid, pc, error, runs, plist0, dirs0, fontsCopied0,
     modResults0, patchedRun, patchCount, copyCount, calls >>

env == << options, registrar, srcStat >>
snapshot == << plist0, dirs0, fontsCopied0, modResults0 >>
tree == << plist, dirs, fontsCopied >>

NoError == [kind |-> "none", subject |-> <<>>]
Thrown(kind, subject) == [kind |-> kind, subject |-> subject]

plistFilePath(targetName) == <<"ios", targetName, "Info.plist">>

Init ==
  /\ options \in [fonts : FontLists, srcFolder : {<<"assets", "fonts">>}]
  /\ registrar \in {"inplace", "functional"}
  /\ srcStat \in {"dir", "file", "missing"}
  /\ plist \in {f \in [TargetNames -> PlistFiles] :
                  /\ f["B"] \in {Undefined, Defined(<< Tok("garbage") >>)}
                  /\ f["C"] = Undefined}
  /\ dirs = {t \in TargetNames : plist[t] # Undefined}
  /\ fontsCopied = FALSE
  /\ modResults = {}
  /\ project = {}
  /\ grouped = <<>>
  /\ ti = 1
  /\ fi = 1
  /\ targetUuid = Undefined
  /\ pc = "idle"
  /\ error = NoError
  /\ runs = 0
  /\ plist0 = plist
  /\ dirs0 = dirs
  /\ fontsCopied0 = fontsCopied
  /\ modResults0 = modResults
  /\ patchedRun = {}
  /\ patchCount = [t \in TargetNames |-> 0]
  /\ copyCount = 0
  /\ calls = <<>>

\* injectExpoNativeFontsIOS up to its call of updateInfoPlist: getIOSFonts,
\* groupByTarget.
injectExpoNativeFontsIOS ==
  /\ pc \in {"idle", "done", "failed"}
  /\ runs < MaxRuns
  /\ runs' = runs + 1
  /\ plist0' = plist
  /\ dirs0' = dirs
  /\ fontsCopied0' = fontsCopied
  /\ modResults0' = modResults
  /\ patchedRun' = {}
  /\ copyCount' = 0
  /\ calls' = <<>>
  /\ ti' = 1
  /\ fi' = 1
  /\ targetUuid' = Undefined
  /\ project' = modResults
  /\ LET iosFonts == getIOSFonts(options)
         result == groupByTarget(iosFonts)
     IN  IF result.error # Undefined
         THEN /\ pc' = "failed"
              /\ error' = Thrown("TargetsRequired", result.error[1])
              /\ grouped' = <<>>
         ELSE /\ pc' = afterGroup(result.grouped)
              /\ error' = NoError
              /\ grouped' = result.grouped
  /\ UNCHANGED << env, tree, modResults, patchCount >>

\* One iteration of updateInfoPlist's loop over the keys of grouped.
updateInfoPlist ==
  /\ pc = "updateInfoPlist"
  /\ LET targetName == grouped[ti].target
         targetFonts == grouped[ti].fonts
         exists == plist[targetName] # Undefined
         contents == IF exists THEN plist[targetName][1] ELSE EmptyPlist
         at == insertIndex(contents)
     IN  /\ dirs' = IF exists THEN dirs ELSE dirs \cup {targetName}
         /\ IF at = -1
            THEN /\ pc' = "failed"
                 /\ error' = Thrown("PlistFormat", plistFilePath(targetName))
                 /\ plist' = [plist EXCEPT ![targetName] = Defined(contents)]
                 /\ UNCHANGED << ti, patchedRun, patchCount >>
            ELSE /\ plist' = [plist EXCEPT ![targetName] =
                        Defined(newPlistContents(contents, at, insertionContents(targetFonts)))]
                 /\ patchedRun' = patchedRun \cup {targetName}
                 /\ patchCount' = [patchCount EXCEPT ![targetName] = @ + 1]
                 /\ pc' = plistLoop(ti + 1, grouped)
                 /\ ti' = IF pc' = "updateInfoPlist" THEN ti + 1 ELSE 1
                 /\ error' = error
  /\ UNCHANGED << env, snapshot, fontsCopied, modResults, project, grouped, fi,
                  targetUuid, runs, copyCount, calls >>

\* updateXcodeProject up to its loop: copyFontFiles.
copyFontFiles ==
  /\ pc = "updateXcodeProject"
  /\ IF srcStat = "missing"
     THEN /\ pc' = "failed"
          /\ error' = Thrown("ENOENT", options.srcFolder)
          /\ UNCHANGED << dirs, fontsCopied, copyCount >>
     ELSE IF srcStat # "dir"
     THEN /\ pc' = "failed"
          /\ error' = Thrown("NotADirectory", options.srcFolder)
          /\ UNCHANGED << dirs, fontsCopied, copyCount >>
     ELSE /\ dirs' = dirs \cup {"Fonts"}
          /\ fontsCopied' = TRUE
          /\ copyCount' = copyCount + 1
          /\ pc' = afterCopy(ti, grouped)
          /\ error' = error
  /\ UNCHANGED << env, snapshot, plist, modResults, project, grouped, ti, fi,
                  targetUuid, runs, patchedRun, patchCount, calls >>

\* addFontToXcodeProj up to its loop over fontFiles: the target lookup.
addFontToXcodeProj ==
  /\ pc = "addFontToXcodeProj"
  /\ project' = modResults
  /\ LET targetName == grouped[ti].target
         found == getPBXTargetByName(NativeTargetSection, targetName)
     IN  IF found = Undefined
         THEN /\ pc' = "failed"
              /\ error' = Thrown("TargetNotFound", <<targetName>>)
              /\ UNCHANGED << ti, fi, targetUuid >>
         ELSE /\ targetUuid' = found
              /\ error' = error
              /\ fi' = 1
              /\ IF Len(grouped[ti].fonts) > 0
                 THEN pc' = "addResourceFile" /\ ti' = ti
                 ELSE pc' = nextTarget(ti + 1, grouped) /\ ti' = ti + 1
  /\ UNCHANGED << env, snapshot, tree, modResults, grouped, runs, patchedRun,
                  patchCount, copyCount, calls >>

\* One iteration of addFontToXcodeProj's loop over fontFiles.
addResourceFile ==
  /\ pc = "addResourceFile"
  /\ LET targetName == grouped[ti].target
         filePath == grouped[ti].fonts[fi].filePath
         returned == addResourceFileToGroup(project, joinFonts(filePath), targetUuid[1])
     IN  /\ modResults' = returned
         /\ project' = IF registrar = "inplace" THEN returned ELSE project
         /\ calls' = Append(calls, [target |-> targetName, filePath |-> filePath,
                                    project |-> project, returned |-> returned])
         /\ IF fi < Len(grouped[ti].fonts)
            THEN /\ fi' = fi + 1
                 /\ UNCHANGED << ti, pc >>
            ELSE /\ fi' = 1
                 /\ ti' = ti + 1
                 /\ pc' = nextTarget(ti + 1, grouped)
  /\ UNCHANGED << env, snapshot, tree, grouped, targetUuid, error, runs,
                  patchedRun, patchCount, copyCount >>

Next ==
  \/ injectExpoNativeFontsIOS
  \/ updateInfoPlist
  \/ copyFontFiles
  \/ addFontToXcodeProj
  \/ addResourceFile

Spec == Init /\ [][Next]_vars

\* ------------------------------------------------------------------ claims

Keys(g) == {g[i].target : i \in 1..Len(g)}
Resolvable(name) ==
  \E n \in 1..Len(NativeTargetSection) : NativeTargetSection[n].name = name
CountTag(file, tag) ==
  IF file = Undefined THEN 0
  ELSE Cardinality({i \in 1..Len(file[1]) : file[1][i].tag = tag})
HasTag(text, tag) == \E i \in 1..Len(text) : text[i].tag = tag
FirstTag(text, tag, i) ==
  /\ text[i].tag = tag
  /\ \A j \in 1..(i - 1) : text[j].tag # tag
SelectedForIOS(font) == font.platform # "android"
NothingMutated ==
  /\ plist = plist0 /\ dirs = dirs0 /\ fontsCopied = fontsCopied0
  /\ modResults = modResults0 /\ calls = <<>> /\ patchedRun = {} /\ copyCount = 0
  /\ \A t \in TargetNames : patchCount[t] = 0
\* The text updateInfoPlist reads for the target its loop is at.
ReadText == LET t == grouped[ti].target
            IN  IF plist[t] = Undefined THEN EmptyPlist ELSE plist[t][1]

\* C1 as stated: the copy has completed before the Info.plist of any target
\* is created or written in the run.
C1_CopyBeforePlist == (plist # plist0) => (copyCount >= 1)

\* C1 amended: the steps run in the order Filter, Group, Plist Patch, Copy,
\* Project Patch.  Every target's Info.plist has been written before
\* copyFontFiles starts and the copy has completed before any resource is
\* registered; a failed copy (srcFolder not a directory) leaves every
\* target's Info.plist patched and the project without a registration.
C1_PlistBeforeCopy ==
  /\ (\/ pc \in {"addFontToXcodeProj", "addResourceFile", "done"}
      \/ copyCount > 0
      \/ (pc = "failed" /\ error.kind \in {"NotADirectory", "ENOENT"}))
     => patchedRun = Keys(grouped)
  /\ (calls # <<>>) => (copyCount = 1)
  /\ (pc = "failed" /\ error.kind = "NotADirectory")
     => /\ modResults = modResults0
        /\ calls = <<>>
        /\ fontsCopied = fontsCopied0
        /\ \A t \in Keys(grouped) :
             CountTag(plist[t], "<key>UIAppFonts</key>")
               = CountTag(plist0[t], "<key>UIAppFonts</key>") + 1

C1_Witness ==
  /\ pc = "failed" /\ error.kind = "NotADirectory"
  /\ Cardinality(patchedRun) = 2
  /\ plist # plist0

\* C2: when a font selected for iOS has no targets field, the run fails with
\* the targets-required error and nothing is created, written, copied or
\* registered, wherever the font is in the list.
C2_MissingTargetsFailsFirst ==
  (/\ pc # "idle"
   /\ \E i \in 1..Len(options.fonts) :
        SelectedForIOS(options.fonts[i]) /\ options.fonts[i].targets = Undefined)
  => /\ pc = "failed"
     /\ error.kind = "TargetsRequired"
     /\ NothingMutated
     /\ modResults = {}
     /\ ~fontsCopied

C2_Witness ==
  /\ pc = "failed" /\ error.kind = "TargetsRequired"
  /\ Len(options.fonts) = 2
  /\ SelectedForIOS(options.fonts[1])
  /\ options.fonts[1].targets = Defined(<<"A", "B">>)
  /\ options.fonts[2].targets = Undefined
  /\ error.subject = options.fonts[2].filePath

\* C3 as stated: a font selected for iOS whose targets is the empty sequence
\* makes the run fail with the targets-required error before any mutation.
C3_EmptyTargetsRejected ==
  (/\ pc # "idle"
   /\ \E i \in 1..Len(options.fonts) :
        SelectedForIOS(options.fonts[i]) /\ options.fonts[i].targets = Defined(<<>>))
  => /\ pc = "failed"
     /\ error.kind = "TargetsRequired"
     /\ NothingMutated

\* C4 as stated: every registration call but the first receives the project
\* the preceding call returned, and a completed run leaves the registration
\* of every (target, font) pair of grouped in config.modResults.
C4_StateThreading ==
  /\ \A k \in 2..Len(calls) : calls[k].project = calls[k - 1].returned
  /\ (pc = "done")
     => \A i \in 1..Len(grouped) : \A j \in 1..Len(grouped[i].fonts) :
          \E r \in modResults :
            /\ r.filepath = <<"Fonts">> \o grouped[i].fonts[j].filePath
            /\ \E n \in 1..Len(NativeTargetSection) :
                 /\ NativeTargetSection[n].uuid = r.targetUuid
                 /\ NativeTargetSection[n].name = grouped[i].target

\* C5: a target of grouped that no native target is named after makes the
\* project patch fail with an error naming it, no registration call is made
\* for it, and the registrations made for the targets before it stay.
C5_MissingTargetFails ==
  /\ \A k \in 1..Len(calls) : Resolvable(calls[k].target)
  /\ (pc = "addResourceFile") => Resolvable(grouped[ti].target)
  /\ (pc = "done") => \A t \in Keys(grouped) : Resolvable(t)
  /\ (pc = "failed" /\ error.kind = "TargetNotFound")
     => /\ error.subject[1] \in Keys(grouped)
        /\ ~Resolvable(error.subject[1])
        /\ \A k \in 1..Len(calls) : calls[k].target # error.subject[1]
        /\ modResults = IF calls = <<>> THEN modResults0
                        ELSE calls[Len(calls)].returned

C5_Witness ==
  /\ pc = "failed" /\ error.kind = "TargetNotFound"
  /\ error.subject = <<"C">>
  /\ calls # <<>>
  /\ registrar = "inplace"

\* C6: for a target whose Info.plist text holds <dict>, updateInfoPlist writes
\* the text back with one fragment right after the first <dict>: the
\* UIAppFonts key, then one array with one string per font of the bucket,
\* the base name of its filePath, in bucket order; the text before and after
\* is kept.
C6_SpliceAfterFirstDict ==
  [][ (pc = "updateInfoPlist" /\ HasTag(ReadText, "<dict>"))
      => LET t == grouped[ti].target
             bucket == grouped[ti].fonts
             n == Len(bucket)
             old == ReadText
         IN  /\ plist'[t] # Undefined
             /\ \E i \in 1..Len(old) :
                  LET new == plist'[t][1]
                  IN  /\ FirstTag(old, "<dict>", i)
                      /\ Len(new) = Len(old) + n + 3
                      /\ \A j \in 1..i : new[j] = old[j]
                      /\ new[i + 1] = [tag |-> "<key>UIAppFonts</key>", text |-> ""]
                      /\ new[i + 2] = [tag |-> "<array>", text |-> ""]
                      /\ \A k \in 1..n :
                           new[i + 2 + k] =
                             [tag |-> "<string>",
                              text |-> bucket[k].filePath[Len(bucket[k].filePath)]]
                      /\ new[i + n + 3] = [tag |-> "</array>", text |-> ""]
                      /\ \A j \in (i + 1)..Len(old) : new[j + n + 3] = old[j]
    ]_vars

C6_Witness ==
  /\ "A" \in patchedRun
  /\ runs = 1
  /\ plist0["A"] # Undefined
  /\ CountTag(plist0["A"], "<dict>") = 2
  /\ \E i \in 1..Len(grouped) :
       /\ grouped[i].target = "A"
       /\ Len(grouped[i].fonts) = 2
       /\ Len(grouped[i].fonts[2].filePath) = 2

\* C7: for a target whose Info.plist text holds no <dict>: with a </plist> the
\* fragment goes right before the first </plist>; with neither marker
\* updateInfoPlist fails with a format error naming the file and the file
\* is not written.
C7_FallbackOrFormatError ==
  [][ (pc = "updateInfoPlist" /\ ~HasTag(ReadText, "<dict>"))
      => LET t == grouped[ti].target
             n == Len(grouped[ti].fonts)
             old == ReadText
         IN  IF HasTag(old, "</plist>")
             THEN /\ plist'[t] # Undefined
                  /\ pc' # "failed"
                  /\ \E i \in 1..Len(old) :
                       LET new == plist'[t][1]
                       IN  /\ FirstTag(old, "</plist>", i)
                           /\ Len(new) = Len(old) + n + 3
                           /\ \A j \in 1..(i - 1) : new[j] = old[j]
                           /\ new[i].tag = "<key>UIAppFonts</key>"
                           /\ new[i + n + 2].tag = "</array>"
                           /\ \A j \in i..Len(old) : new[j + n + 3] = old[j]
             ELSE /\ pc' = "failed"
                  /\ error'.kind = "PlistFormat"
                  /\ error'.subject = <<"ios", t, "Info.plist">>
                  /\ plist' = plist
                  /\ patchCount' = patchCount
    ]_vars

C7_Witness ==
  /\ pc = "failed" /\ error.kind = "PlistFormat"
  /\ error.subject = <<"ios", "B", "Info.plist">>
  /\ runs = 1
  /\ "A" \in patchedRun
  /\ CountTag(plist0["A"], "<dict>") = 0
  /\ CountTag(plist0["A"], "</plist>") = 1

\* C8: the plist patch is not idempotent: each run that patches a target's
\* Info.plist adds one more fragment to it, so the file holds as many
\* UIAppFonts keys, each with its array, as patches were made, two after two
\* runs.
C8_FragmentPerRun ==
  \A t \in TargetNames :
    /\ CountTag(plist[t], "<key>UIAppFonts</key>") = patchCount[t]
    /\ CountTag(plist[t], "<array>") = patchCount[t]
    /\ CountTag(plist[t], "</array>") = patchCount[t]
    /\ (pc = "done" /\ t \in Keys(grouped)) => patchCount[t] = runs

C8_Witness ==
  /\ pc = "done" /\ runs = 2
  /\ CountTag(plist["A"], "<key>UIAppFonts</key>") = 2
  /\ CountTag(plist0["A"], "<key>UIAppFonts</key>") = 1

\* C9: a run that completes has executed the copy of srcFolder into ios/Fonts
\* exactly once, whatever the number of targets.
C9_CopyOnce ==
  /\ copyCount <= 1
  /\ (pc = "done") => (copyCount = 1 /\ fontsCopied /\ "Fonts" \in dirs)

C9_Witness ==
  /\ pc = "done" /\ copyCount = 1 /\ Len(grouped) = 2

\* The fonts of the entry of g for target t, none when g has no such entry.
Bucket(g, t) ==
  IF \E i \in 1..Len(g) : g[i].target = t
  THEN g[CHOOSE i \in 1..Len(g) : g[i].target = t].fonts
  ELSE <<>>
AllCarryTargets(fonts) == \A i \in 1..Len(fonts) : fonts[i].targets # Undefined
GroupingDone == pc # "idle" /\ AllCarryTargets(getIOSFonts(options))

\* C10 as stated: the bucket of target T is exactly the subsequence of the
\* input fonts that list T, and no bucket exists for a target no font names.
C10_BucketIsSubsequence ==
  GroupingDone
  => LET fonts == getIOSFonts(options)
     IN  \A t \in TargetNames :
           LET lists(f) == \E k \in 1..Len(f.targets[1]) : f.targets[1][k] = t
           IN  /\ Bucket(grouped, t) = SelectSeq(fonts, lists)
               /\ (t \in Keys(grouped)) <=> (\E i \in 1..Len(fonts) : lists(fonts[i]))

\* The (target, font) pairs of a fonts list: font by font, target by target.
RECURSIVE Mentions(_)
Mentions(fonts) ==
  IF fonts = <<>> THEN <<>>
  ELSE [k \in 1..Len(Head(fonts).targets[1]) |->
          [target |-> Head(fonts).targets[1][k], font |-> Head(fonts)]]
       \o Mentions(Tail(fonts))

\* C10 amended: the bucket of target T holds the input fonts that list T in
\* declaration order, each once per occurrence of T in its targets (exactly
\* the subsequence when no font repeats a target), one bucket per target
\* named, and none for a target no font names.
C10_BucketPerMention ==
  GroupingDone
  => LET mentions == Mentions(getIOSFonts(options))
     IN  /\ \A t \in TargetNames :
               LET of(m) == m.target = t
                   mine == SelectSeq(mentions, of)
               IN  /\ Bucket(grouped, t) = [k \in 1..Len(mine) |-> mine[k].font]
                   /\ (t \in Keys(grouped)) <=> (mine # <<>>)
         /\ Cardinality(Keys(grouped)) = Len(grouped)

C10_Witness ==
  /\ pc # "idle"
  /\ Len(options.fonts) = 2
  /\ options.fonts[1].targets = Defined(<<"A", "A">>)
  /\ options.fonts[2].targets = Defined(<<"A", "B">>)
  /\ Len(Bucket(grouped, "A")) = 3
  /\ Len(Bucket(grouped, "B")) = 1

====
